---- MODULE Spec2Model ----
(***************************************************************************)
(* The Dropout widget (OWDropout) of orange3-single-cell: the widget's     *)
(* handlers (set_data, the parameter callbacks, commit) as a state machine *)
(* over the widget's fields, together with the gene selector it drives     *)
(* (DropoutGeneSelection: per-gene statistics, the exponential curve, the  *)
(* two selection policies and filter_columns).                             *)
(*                                                                         *)
(* Numbers.  Expression values are powers of two (or zero), so log2 is an  *)
(* integer; the generated tables keep every gene's mean log2 expression an *)
(* integer.  decay and x_offset are integers, y_offset is counted in       *)
(* hundredths.  Zero rates and curve values are carried times SCALE.  The  *)
(* curve exp(-decay*(x - x_offset)) is tabulated at its integer arguments  *)
(* as ceil(exp(k) * SCALE): exp(k) is irrational for k # 0, so for the     *)
(* rationals z that occur, z < exp(k) + c holds exactly when               *)
(* z*SCALE < ExpCeil(k) + c*SCALE, and the order of two scores             *)
(* exp(k) + c - z is the order of their scaled values.                     *)
(***************************************************************************)
EXTENDS Integers, Sequences, FiniteSets

\* ------------------------------------------------------------- bounds

\* Largest number of genes (columns) of a generated table: of the tables
\* the selection runs are checked on, and of the tables the full widget,
\* with its deferred commits, is run on.
MaxGenes == 2
MaxWidgetGenes == 1
\* Largest value the user types into the "Number of genes" spin box.
MaxN == 2

\* Numbers of cells (rows) of the generated tables, the expression values
\* they hold, and the values the user gives the three coefficient spin
\* boxes (y_offset in hundredths).
CellCounts == {0, 1, 2}
WidgetCellCounts == {0, 1}
Values == {0, 4, 256}
DecayValues == {1, 2}
XOffsetValues == {2, 5}
YOffsetValues == {2, 50}

\* ---------------------------------------------------- program constants

ByNumber == 0
ByEquation == 1
N_GENES_DEFAULT == 1000
X_OFFSET_DEFAULT == 5
Y_OFFSET_DEFAULT == 2
DECAY_DEFAULT == 1

\* Fixed-point scale of zero rates and curve values.
SCALE == 60 * 1000

\* -------------------------------------------------------------- tables

\* An Orange Table: gene (attribute) names, cell (row) names, the matrix X
\* as a sequence of rows.  kind tells a table from None and, on the output
\* channel, from "nothing sent yet" and from a failed filter_columns.
NoTable == [kind |-> "None", attrs |-> <<>>, cells |-> <<>>, X |-> <<>>]
Unsent == [kind |-> "unsent", attrs |-> <<>>, cells |-> <<>>, X |-> <<>>]
DimensionMismatchError ==
    [kind |-> "DimensionMismatchError", attrs |-> <<>>, cells |-> <<>>, X |-> <<>>]

MkTable(r, c, m) ==
    [kind |-> "Table", attrs |-> [j \in 1..c |-> j], cells |-> [i \in 1..r |-> i], X |-> m]

NGenes(t) == Len(t.attrs)
NCells(t) == Len(t.cells)

\* bool(table): a table is falsy when it is None or has no rows.
Truthy(t) == t.kind = "Table" /\ NCells(t) > 0

\* self.selected: None, or a boolean mask.
NoMask == [none |-> TRUE, v |-> <<>>]
Some(m) == [none |-> FALSE, v |-> m]

RECURSIVE Log2(_)
Log2(v) == IF v <= 1 THEN 0 ELSE 1 + Log2(v \div 2)

Count(mask) == Cardinality({i \in DOMAIN mask : mask[i]})

Min(a, b) == IF a <= b THEN a ELSE b

\* ---------------------------------------------- DropoutStatsComputer

\* Sum of log2 over the nonzero entries of gene j in cells 1..i.
RECURSIVE SumLog(_, _, _)
SumLog(t, j, i) ==
    IF i = 0 THEN 0
    ELSE (IF t.X[i][j] # 0 THEN Log2(t.X[i][j]) ELSE 0) + SumLog(t, j, i - 1)

\* Per gene: the number of zero entries, the number of cells, and the mean
\* of log2 over the nonzero entries; nan when the gene has none.
GeneStats(t, j) ==
    LET cnt == Cardinality({i \in 1..NCells(t) : t.X[i][j] # 0})
        sum == SumLog(t, j, NCells(t))
    IN [zeros |-> NCells(t) - cnt,
        cells |-> NCells(t),
        nan |-> cnt = 0,
        sum |-> sum,
        cnt |-> cnt,
        mean_expr |-> IF cnt = 0 THEN 0 ELSE sum \div cnt]

Stats(t) == [j \in 1..NGenes(t) |-> GeneStats(t, j)]

\* zero_rate times SCALE.
ZeroRate(s) == (s.zeros * SCALE) \div s.cells

\* A table the fixed-point numbers represent exactly.
Representable(t) ==
    \A j \in 1..NGenes(t) :
        LET s == GeneStats(t, j)
        IN /\ s.cells > 0 => (s.zeros * SCALE) % s.cells = 0
           /\ s.cnt > 0 => s.sum % s.cnt = 0

\* ------------------------------------------------ the exponential curve

\* ceil(exp(k) * SCALE) for k = -12 .. 6.
ExpTable ==
    <<1, 2, 3, 8, 21, 55, 149, 405, 1099, 2988, 8121, 22073, 60000,
      163097, 443344, 1205133, 3275890, 8904790, 24205728>>

ExpCeil(k) == ExpTable[k + 13]

\* (exp(-decay * (x - x_offset)) + y_offset) * SCALE, rounded up.
CurveValue(x, dec, xo, yo) == ExpCeil(-dec * (x - xo)) + (yo * SCALE) \div 100

\* ------------------------------------------------ DropoutGeneSelection

\* The constructor: a keyword that is not given takes its default.
DropoutGeneSelection(kwargs) ==
    [n_genes |-> IF "n_genes" \in DOMAIN kwargs THEN {kwargs.n_genes} ELSE {},
     decay |-> IF "decay" \in DOMAIN kwargs THEN kwargs.decay ELSE DECAY_DEFAULT,
     x_offset |-> IF "x_offset" \in DOMAIN kwargs THEN kwargs.x_offset ELSE X_OFFSET_DEFAULT,
     y_offset |-> IF "y_offset" \in DOMAIN kwargs THEN kwargs.y_offset ELSE Y_OFFSET_DEFAULT]

Valid(s) == ~s.nan

\* How far the gene's zero rate lies below the selector's curve (times SCALE).
Score(s, selector) ==
    CurveValue(s.mean_expr, selector.decay, selector.x_offset, selector.y_offset)
        - ZeroRate(s)

\* The comparison turned round: the genes above the curve.
AboveCurve(s, selector) ==
    /\ Valid(s)
    /\ ZeroRate(s) >
           CurveValue(s.mean_expr, selector.decay, selector.x_offset, selector.y_offset)

\* The gene's point lies below the curve: zero_rate < curve(mean_expr).
BelowCurve(s, selector) ==
    /\ Valid(s)
    /\ ZeroRate(s) <
           CurveValue(s.mean_expr, selector.decay, selector.x_offset, selector.y_offset)

\* Gene i comes before gene j in the ranking: a larger score, ties by the
\* smaller column index.
RanksBefore(st, selector, i, j) ==
    \/ Score(st[i], selector) > Score(st[j], selector)
    \/ Score(st[i], selector) = Score(st[j], selector) /\ i < j

\* ByNumber: the n valid genes that come first in the ranking.
SelectByNumber(st, selector, n) ==
    [i \in DOMAIN st |->
        /\ Valid(st[i])
        /\ Cardinality({j \in DOMAIN st :
               j # i /\ Valid(st[j]) /\ RanksBefore(st, selector, j, i)}) < n]

\* ByEquation: the genes below the curve.
SelectByEquation(st, selector) ==
    [i \in DOMAIN st |-> BelowCurve(st[i], selector)]

\* selector.select_genes(X): EmptyInputError on a matrix with no genes or
\* no cells, else the mask and the statistics.
SelectorSelectGenes(selector, t) ==
    IF NGenes(t) = 0 \/ NCells(t) = 0
    THEN [err |-> "EmptyInputError", mask |-> <<>>, stats |-> <<>>]
    ELSE LET st == Stats(t)
         IN [err |-> "none",
             mask |-> IF selector.n_genes # {}
                      THEN SelectByNumber(st, selector, CHOOSE n \in selector.n_genes : TRUE)
                      ELSE SelectByEquation(st, selector),
             stats |-> st]

\* True positions of a mask, ascending.
RECURSIVE Kept(_, _)
Kept(mask, i) ==
    IF i > Len(mask) THEN <<>>
    ELSE (IF mask[i] THEN <<i>> ELSE <<>>) \o Kept(mask, i + 1)

\* A filter that keeps the columns whose mask entry is false.
FilterKeepsUnselected(t, mask) ==
    IF Len(mask) # NGenes(t) THEN DimensionMismatchError
    ELSE LET keep == Kept([k \in DOMAIN mask |-> ~mask[k]], 1)
         IN [kind |-> "Table",
             attrs |-> [k \in 1..Len(keep) |-> t.attrs[keep[k]]],
             cells |-> t.cells,
             X |-> [i \in 1..NCells(t) |->
                       [k \in 1..Len(keep) |-> t.X[i][keep[k]]]]]

\* filter_columns(data, mask): a new table with the columns whose mask
\* entry is true; DimensionMismatchError when the lengths differ.
FilterColumns(t, mask) ==
    IF Len(mask) # NGenes(t) THEN DimensionMismatchError
    ELSE LET keep == Kept(mask, 1)
         IN [kind |-> "Table",
             attrs |-> [k \in 1..Len(keep) |-> t.attrs[keep[k]]],
             cells |-> t.cells,
             X |-> [i \in 1..NCells(t) |->
                       [k \in 1..Len(keep) |-> t.X[i][keep[k]]]]]

\* ---------------------------------------------------------- the widget

VARIABLES
    data,           \* self.data
    selected,       \* self.selected
    filter_type,    \* settings
    n_genes,
    decay,
    x_offset,
    y_offset,
    auto_commit,
    dirty,          \* gui.auto_commit: a commit is pending
    out,            \* the last value sent on Outputs.data
    less_selected,  \* Warning.less_selected: {} hidden, {k} shown with k
    graph,          \* what the plot holds
    err,            \* the exception that left the last handler, or "none"
    steps           \* the widget methods the last handler ran, in order

vars == <<data, selected, filter_type, n_genes, decay, x_offset, y_offset,
          auto_commit, dirty, out, less_selected, graph, err, steps>>

\* The 3-gene, 10-cell table with zero_rate = [0.1, 0.5, 0.9] and
\* mean_expr = [8, 5, 2].
ExampleTable ==
    MkTable(10, 3,
        [i \in 1..10 |->
            <<IF i <= 1 THEN 0 ELSE 256,
              IF i <= 5 THEN 0 ELSE 32,
              IF i <= 9 THEN 0 ELSE 4>>])

\* A 2-cell table with an all-zero gene, a gene above the default curve
\* (zero_rate 0.5 at mean_expr 8) and a gene below it.
MixedTable == MkTable(2, 3, << <<0, 256, 4>>, <<0, 0, 4>> >>)

\* The tables of at most g genes and of r cells, r in rs, that the
\* fixed-point numbers represent.
Generated(g, rs) ==
    {t \in UNION {{MkTable(r, c, m) : m \in [1..r -> [1..c -> Values]]} :
                     r \in rs, c \in 0..g} : Representable(t)}

\* The tables that arrive on the input.
InputTables == Generated(MaxGenes, CellCounts) \cup {ExampleTable, MixedTable}
WidgetTables == Generated(MaxWidgetGenes, WidgetCellCounts) \cup {ExampleTable, MixedTable}

\* A clear() that leaves self.selected as it is.
ClearKeepsMask(sel) == sel

\* clear(): self.selected = None.
Clear(sel) == NoMask

\* The keyword arguments with the test of the filter type turned round.
KwargsInverted(ft, n, dec, xo, yo) ==
    IF ft # ByNumber
    THEN [n_genes |-> n]
    ELSE [decay |-> dec, x_offset |-> xo, y_offset |-> yo]

\* select_genes: the selector's keyword arguments, n_genes alone in
\* ByNumber mode, the three coefficients in ByEquation mode.
SelectorKwargs(ft, n, dec, xo, yo) ==
    IF ft = ByNumber
    THEN [n_genes |-> n]
    ELSE [decay |-> dec, x_offset |-> xo, y_offset |-> yo]

\* DropoutGraph.set_data: the dots, then the curve over
\* arange(xmin, ceil(nanmax(mean_expr)) + 0.01, 0.01).  nanmax of mean_expr
\* that are all NaN is NaN, and arange cannot compute a length from it: a
\* ValueError after the dots are drawn.
GraphSetData(st) ==
    IF \A j \in DOMAIN st : st[j].nan
    THEN [graph |-> "dots", err |-> "ValueError"]
    ELSE [graph |-> "plotted", err |-> "none"]

\* select_genes(): what it leaves in the widget's fields, and the
\* exception it ends with.  sel is self.selected as clear() left it.
SelectGenes(d, sel, ft, n, dec, xo, yo) ==
    IF ~Truthy(d)
    THEN [selected |-> sel, decay |-> dec, x_offset |-> xo, y_offset |-> yo,
          warn |-> {}, graph |-> "empty", err |-> "none"]
    ELSE LET selector == DropoutGeneSelection(SelectorKwargs(ft, n, dec, xo, yo))
             res == SelectorSelectGenes(selector, d)
             g == GraphSetData(res.stats)
             n_selected == Count(res.mask)
         IN IF res.err # "none"
            THEN [selected |-> sel, decay |-> dec, x_offset |-> xo, y_offset |-> yo,
                  warn |-> {}, graph |-> "empty", err |-> res.err]
            ELSE [selected |-> Some(res.mask),
                  decay |-> selector.decay,
                  x_offset |-> selector.x_offset,
                  y_offset |-> selector.y_offset,
                  warn |-> IF g.err = "none" /\ n_selected < n /\ ft = ByNumber
                           THEN {n_selected} ELSE {},
                  graph |-> g.graph,
                  err |-> g.err]

\* commit(): the value handed to Outputs.data.send.
CommitValue(d, sel) ==
    IF sel.none THEN NoTable ELSE FilterColumns(d, sel.v)

\* clear, select_genes, setup_info_label and commit, as set_data and
\* __param_changed run them, with the settings the event leaves.  now:
\* the commit is unconditional_commit (set_data) rather than the
\* auto-commit wrapper (the callbacks).
RunHandler(d, ft, n, dec, xo, yo, now) ==
    \E r \in {SelectGenes(d, Clear(selected), ft, n, dec, xo, yo)} :
    LET selected_ok == r.err = "none"
        sends == selected_ok /\ (now \/ auto_commit)
        value == CommitValue(d, r.selected)
        raised == sends /\ value.kind = "DimensionMismatchError"
    IN /\ data' = d
       /\ filter_type' = ft
       /\ n_genes' = n
       /\ selected' = r.selected
       /\ decay' = r.decay
       /\ x_offset' = r.x_offset
       /\ y_offset' = r.y_offset
       /\ less_selected' = r.warn
       /\ graph' = r.graph
       /\ out' = IF sends /\ ~raised THEN value ELSE out
       /\ dirty' = IF selected_ok /\ ~now /\ ~raised THEN ~auto_commit ELSE dirty
       /\ err' = IF raised THEN "DimensionMismatchError" ELSE r.err
       /\ steps' = IF ~selected_ok THEN <<"clear", "select_genes">>
                   ELSE <<"clear", "select_genes", "setup_info_label", "commit">>
                            \o (IF sends /\ ~raised THEN <<"send">> ELSE <<>>)
       /\ UNCHANGED auto_commit

Init ==
    /\ data = NoTable
    /\ selected = NoMask
    /\ filter_type = ByNumber
    /\ n_genes = N_GENES_DEFAULT
    /\ decay = DECAY_DEFAULT
    /\ x_offset = X_OFFSET_DEFAULT
    /\ y_offset = Y_OFFSET_DEFAULT
    /\ auto_commit = TRUE
    /\ dirty = FALSE
    /\ out = Unsent
    /\ less_selected = {}
    /\ graph = "empty"
    /\ err = "none"
    /\ steps = <<>>

\* A table, or None, arrives on the input.
set_data ==
    \E d \in WidgetTables \cup {NoTable} :
        RunHandler(d, filter_type, n_genes, decay, x_offset, y_offset, TRUE)

\* The first table arrives on the input of a widget that has none.
first_data ==
    /\ data = NoTable
    /\ \E d \in InputTables :
        RunHandler(d, filter_type, n_genes, decay, x_offset, y_offset, TRUE)

\* A radio button of the filter box is clicked.
filter_type_changed ==
    \E ft \in {ByNumber, ByEquation} :
        RunHandler(data, ft, n_genes, decay, x_offset, y_offset, FALSE)

\* The spin boxes; enable_controls leaves n_genes editable in ByNumber
\* mode and the coefficients in ByEquation mode.
n_genes_changed ==
    /\ filter_type = ByNumber
    /\ \E n \in 0..MaxN :
        RunHandler(data, filter_type, n, decay, x_offset, y_offset, FALSE)

decay_changed ==
    /\ filter_type = ByEquation
    /\ \E v \in DecayValues :
        RunHandler(data, filter_type, n_genes, v, x_offset, y_offset, FALSE)

x_offset_changed ==
    /\ filter_type = ByEquation
    /\ \E v \in XOffsetValues :
        RunHandler(data, filter_type, n_genes, decay, v, y_offset, FALSE)

y_offset_changed ==
    /\ filter_type = ByEquation
    /\ \E v \in YOffsetValues :
        RunHandler(data, filter_type, n_genes, decay, x_offset, v, FALSE)

\* commit() run by the auto-commit box: the button, or the check box
\* ticked while a commit is pending.
DoCommit ==
    LET value == CommitValue(data, selected)
        raised == value.kind = "DimensionMismatchError"
    IN /\ out' = IF raised THEN out ELSE value
       /\ err' = IF raised THEN "DimensionMismatchError" ELSE "none"
       /\ dirty' = IF raised THEN dirty ELSE FALSE
       /\ steps' = <<"commit">> \o (IF raised THEN <<>> ELSE <<"send">>)

\* "Send Selection" is pressed (the button is disabled when sending
\* automatically).
send_selection ==
    /\ ~auto_commit
    /\ DoCommit
    /\ UNCHANGED <<data, selected, filter_type, n_genes, decay, x_offset,
                   y_offset, auto_commit, less_selected, graph>>

\* "Send Automatically" is ticked or unticked.
auto_commit_toggled ==
    /\ auto_commit' = ~auto_commit
    /\ IF ~auto_commit /\ dirty
       THEN DoCommit
       ELSE /\ steps' = <<>>
            /\ err' = "none"
            /\ UNCHANGED <<out, dirty>>
    /\ UNCHANGED <<data, selected, filter_type, n_genes, decay, x_offset,
                   y_offset, less_selected, graph>>

Next ==
    \/ set_data
    \/ filter_type_changed
    \/ n_genes_changed
    \/ decay_changed
    \/ x_offset_changed
    \/ y_offset_changed
    \/ send_selection
    \/ auto_commit_toggled

Spec == Init /\ [][Next]_vars

\* The selection runs on their own: one table, then any changes of the
\* filter type and the parameters, sending automatically.
NextSelect ==
    \/ first_data
    \/ filter_type_changed
    \/ n_genes_changed
    \/ decay_changed
    \/ x_offset_changed
    \/ y_offset_changed

SpecSelect == Init /\ [][NextSelect]_vars

\* ------------------------------------------- filter_columns on its own

\* filter_columns applied to any table and any mask, of the right length
\* or not.
Masks == UNION {[1..k -> BOOLEAN] : k \in 0..(MaxGenes + 1)}

InitFilter ==
    /\ data \in InputTables
    /\ selected \in {Some(m) : m \in Masks}
    /\ filter_type = ByNumber
    /\ n_genes = N_GENES_DEFAULT
    /\ decay = DECAY_DEFAULT
    /\ x_offset = X_OFFSET_DEFAULT
    /\ y_offset = Y_OFFSET_DEFAULT
    /\ auto_commit = TRUE
    /\ dirty = FALSE
    /\ out = Unsent
    /\ less_selected = {}
    /\ graph = "empty"
    /\ err = "none"
    /\ steps = <<>>

filter_columns ==
    /\ out = Unsent
    /\ out' = FilterColumns(data, selected.v)
    /\ steps' = <<"filter_columns">>
    /\ UNCHANGED <<data, selected, filter_type, n_genes, decay, x_offset,
                   y_offset, auto_commit, dirty, less_selected, graph, err>>

SpecFilter == InitFilter /\ [][filter_columns]_vars

\* ------------------------------------------------------------- claims

\* The curve the widget holds, as a selector's.
Stored == [n_genes |-> {}, decay |-> decay, x_offset |-> x_offset, y_offset |-> y_offset]

ValidGenes(st) == {j \in DOMAIN st : ~st[j].nan}
Chosen(mask) == {j \in DOMAIN mask : mask[j]}

\* C1: in ByNumber mode, with V the genes whose mean_expr is defined, the
\* mask selects exactly min(n_genes, V) genes, all of them valid, and no
\* unselected valid gene lies further below the curve than a selected one.
C1_ByNumberTopN ==
    (filter_type = ByNumber /\ ~selected.none) =>
        \A st \in {Stats(data)} :
            /\ Cardinality(Chosen(selected.v)) = Min(n_genes, Cardinality(ValidGenes(st)))
            /\ Chosen(selected.v) \subseteq ValidGenes(st)
            /\ \A i \in Chosen(selected.v) : \A j \in ValidGenes(st) \ Chosen(selected.v) :
                   Score(st[i], Stored) >= Score(st[j], Stored)

\* A ByNumber run that left out a valid gene with a strictly smaller score.
C1_Witness ==
    /\ filter_type = ByNumber
    /\ ~selected.none
    /\ \E st \in {Stats(data)} :
          \E i \in Chosen(selected.v) : \E j \in ValidGenes(st) \ Chosen(selected.v) :
              Score(st[i], Stored) > Score(st[j], Stored)

\* C2: in ByEquation mode a gene is selected exactly when its mean_expr is
\* defined and zero_rate < exp(-decay*(mean_expr - x_offset)) + y_offset;
\* a gene with no nonzero entry is never selected.
C2_ByEquationBelowCurve ==
    (filter_type = ByEquation /\ ~selected.none) =>
        \A st \in {Stats(data)} : \A j \in DOMAIN st :
            /\ selected.v[j] <=>
                   /\ st[j].cnt > 0
                   /\ ZeroRate(st[j]) < CurveValue(st[j].mean_expr, decay, x_offset, y_offset)
            /\ st[j].zeros = st[j].cells => ~selected.v[j]

\* A ByEquation run over an all-zero gene, a valid gene above the curve and
\* a gene below it.
C2_Witness ==
    /\ filter_type = ByEquation
    /\ ~selected.none
    /\ \E st \in {Stats(data)} :
          /\ \E j \in DOMAIN st : st[j].nan /\ ~selected.v[j]
          /\ \E j \in DOMAIN st : ~st[j].nan /\ ~selected.v[j]
          /\ \E j \in DOMAIN st : selected.v[j]

\* C3: the mask the widget holds is as long as the current table has genes,
\* and commit's filter_columns never fails on a length mismatch.
C3_MaskLength ==
    /\ ~selected.none => Len(selected.v) = NGenes(data)
    /\ err # "DimensionMismatchError"
    /\ out.kind # "DimensionMismatchError"

\* A run over a table with genes whose filtered table was sent.
C3_Witness ==
    /\ ~selected.none
    /\ NGenes(data) = 3
    /\ steps = <<"clear", "select_genes", "setup_info_label", "commit", "send">>
    /\ out.kind = "Table"

\* C4: a ByEquation run on the same table with the same decay and x_offset
\* and a y_offset that is not smaller keeps every gene that was selected.
C4_MonotoneInYOffset ==
    [][(/\ filter_type = ByEquation /\ filter_type' = ByEquation
        /\ data' = data /\ decay' = decay /\ x_offset' = x_offset
        /\ y_offset' >= y_offset
        /\ ~selected.none /\ ~selected'.none)
       => \A j \in DOMAIN selected.v : selected.v[j] => selected'.v[j]]_vars

\* A ByEquation run with y_offset raised above its default that selects a
\* gene the default y_offset leaves out.
C4_Witness ==
    /\ filter_type = ByEquation
    /\ ~selected.none
    /\ y_offset > Y_OFFSET_DEFAULT
    /\ \E st \in {Stats(data)} : \E j \in DOMAIN st :
          /\ selected.v[j]
          /\ ZeroRate(st[j]) >= CurveValue(st[j].mean_expr, decay, x_offset, Y_OFFSET_DEFAULT)

\* C5: filter_columns fails with DimensionMismatchError exactly when the
\* mask is not as long as the table has columns; otherwise the result has
\* the table's cells in their order and, in each row and in the attributes,
\* the entries at the true positions of the mask in their order.  The
\* input table is left as it was.
C5_FilterColumns ==
    [][/\ data' = data
       /\ IF Len(selected.v) # NGenes(data)
          THEN out' = DimensionMismatchError
          ELSE /\ out'.kind = "Table"
               /\ out'.cells = data.cells
               /\ \E p \in [1..Cardinality(Chosen(selected.v)) -> 1..Len(selected.v)] :
                     /\ \A k \in DOMAIN p : selected.v[p[k]]
                     /\ \A k \in DOMAIN p : \A l \in DOMAIN p : k < l => p[k] < p[l]
                     /\ out'.attrs = [k \in DOMAIN p |-> data.attrs[p[k]]]
                     /\ out'.X = [i \in 1..NCells(data) |->
                                     [k \in DOMAIN p |-> data.X[i][p[k]]]]]_vars

\* A table of several cells filtered down to some but not all of its genes.
C5_Witness ==
    /\ out.kind = "Table"
    /\ NCells(data) >= 2
    /\ NGenes(out) >= 1
    /\ NGenes(out) < NGenes(data)

\* C6: on the example table, ByNumber(2) with the default curve yields the
\* mask [true, true, false].
C6_ExampleMask ==
    (/\ data = ExampleTable /\ filter_type = ByNumber /\ n_genes = 2
     /\ ~selected.none)
        => selected.v = <<TRUE, TRUE, FALSE>>

\* C7: a step that ends in ByNumber mode (the coefficient spin boxes are
\* then disabled, so it is no user edit of a coefficient) leaves the stored
\* decay, x_offset and y_offset as they were.
C7_StickyCoefficients ==
    [][filter_type' = ByNumber =>
          <<decay, x_offset, y_offset>>' = <<decay, x_offset, y_offset>>]_vars

\* C8: with a table of zero genes or zero cells on the input, no exception
\* has left the handler, selected is None and None was sent.
C8_EmptyInputNoCrash ==
    (data.kind = "Table" /\ (NGenes(data) = 0 \/ NCells(data) = 0)) =>
        /\ err = "none"
        /\ selected.none
        /\ out = NoTable

\* C9: the less_selected warning is shown exactly when there is data with
\* cells and genes, the filter is ByNumber and fewer than n_genes genes are
\* selected; it then carries the number selected, and no exception was
\* raised.
C9_LessSelectedWarning ==
    \A fewer \in {/\ Truthy(data) /\ NGenes(data) > 0
                  /\ filter_type = ByNumber
                  /\ ~selected.none /\ Count(selected.v) < n_genes} :
        /\ less_selected # {} <=> fewer
        /\ fewer => less_selected = {Count(selected.v)} /\ err = "none"

\* C10: after every set_data and parameter event the handler has run clear,
\* select_genes, setup_info_label and commit in that order; selected is
\* None exactly when data is None or has no rows; and what commit sends is
\* None when selected is None and else filter_columns of the current data
\* and mask.
C10_FreshRun ==
    /\ "clear" \in {steps[k] : k \in DOMAIN steps} =>
           /\ Len(steps) >= 4
           /\ SubSeq(steps, 1, 4) = <<"clear", "select_genes", "setup_info_label", "commit">>
    /\ selected.none <=> ~Truthy(data)
    /\ "send" \in {steps[k] : k \in DOMAIN steps} =>
           out = IF selected.none THEN NoTable ELSE FilterColumns(data, selected.v)

====
